---- MODULE Spec2Model ----
(***************************************************************************)
(* The guest-side adapter of zathura-plugin: the five extern "C"           *)
(* callbacks of wrapper (src/src/lib.rs), the DocumentRef / PageRef        *)
(* accessors they use (src/src/document.rs, src/src/page.rs) and the       *)
(* status-code conversions (src/src/error.rs), run against one host-owned  *)
(* document and its pages.                                                 *)
(***************************************************************************)
EXTENDS Integers, Sequences, FiniteSets, TLC

\* ------------------------------------------------------------------ bounds
\* Largest page count a plugin declares in document_open.
MaxPages == 2
\* Largest high word of a pointer-width index (index = hi * 2^32 + lo).
MaxHi == 1
\* Status codes fed to from_raw range over -CodeSpan .. 5 + CodeSpan.
CodeSpan == 20
\* Longest chain of references (the moved one and those derived from it) a
\* plugin method holds at once.
MaxDepth == 3
\* Most MIME types listed in a plugin_entry! invocation.
MaxMimes == 4

\* The page sizes (in points) a plugin returns from page_init.
Dims == {[width |-> 75, height |-> 100], [width |-> 100, height |-> 75]}
NoDims == [width |-> 0, height |-> 0]

\* ------------------------------------------------------------ error model
\* The null pointer; heap blocks are numbered from 1.
NULL == 0

PluginError ==
    {"Unknown", "OutOfMemory", "NotImplemented", "InvalidArguments", "InvalidPassword"}

\* Result<(), PluginError>
Results == {"Ok"} \cup PluginError

\* What a plugin method can do: return a Result, or panic.
Outcomes == Results \cup {"panic"}

\* `e as zathura_error_t`: the enum's discriminants.
Discriminant(e) ==
    CASE e = "Unknown" -> 1
      [] e = "OutOfMemory" -> 2
      [] e = "NotImplemented" -> 3
      [] e = "InvalidArguments" -> 4
      [] e = "InvalidPassword" -> 5

\* from_raw without its last arm: code 5 falls through to None.
from_raw_missing_arm(error) ==
    CASE error = 0 -> "Ok"
      [] error = 1 -> "Unknown"
      [] error = 2 -> "OutOfMemory"
      [] error = 3 -> "NotImplemented"
      [] error = 4 -> "InvalidArguments"
      [] OTHER -> "None"

\* PluginError::from_raw: Option<Result<(), PluginError>>, "None" for None.
from_raw(error) ==
    CASE error = 0 -> "Ok"
      [] error = 1 -> "Unknown"
      [] error = 2 -> "OutOfMemory"
      [] error = 3 -> "NotImplemented"
      [] error = 4 -> "InvalidArguments"
      [] error = 5 -> "InvalidPassword"
      [] OTHER -> "None"

\* to_zathura that reports every error as Unknown.
to_zathura_flat(r) == IF r = "Ok" THEN 0 ELSE 1

\* ResultExt::to_zathura
to_zathura(r) == IF r = "Ok" THEN 0 ELSE Discriminant(r)

\* wrap without catch_unwind: the closure's panic goes on unwinding.
wrap_no_catch(r) == r

\* wrap: catch_unwind turns a panic of the closure into Err(Unknown).
wrap(r) == IF r = "panic" THEN "Unknown" ELSE r

\* ------------------------------------------------------------------ state
VARIABLES
    phase,        \* host lifecycle of the document: new, opened, openfailed, freed
    doc,          \* the host's zathura_document_t
    pages,        \* the host's zathura_page_t objects, by index
    heap,         \* Box allocations of plugin data, block p is heap[p]
    declared,     \* the page count the plugin's document_open returned
    last,         \* the callback that just ran: what the plugin saw, what the host got
    lookup,       \* the DocumentRef::page call that just ran
    crashed,      \* the process died on undefined behaviour
    hooksOk,      \* every plugin method invoked so far returned Ok
    statusesZero, \* every callback so far returned status 0
    codec,        \* a status code or Result being converted (CodecSpec)
    refs,         \* the DocumentRef / PageRef values alive inside a callback (RefSpec)
    pc,           \* the callback being stepped through and the position in it (RefSpec)
    writes,       \* the host-object writes and page() calls the adapter made in it (RefSpec)
    entry         \* a plugin_entry! invocation and the descriptor it produced (EntrySpec)

vars == <<phase, doc, pages, heap, declared, last, lookup, crashed, hooksOk, statusesZero,
          codec, refs, pc, writes, entry>>

NoCall ==
    [cb |-> "none", page |-> 0, hook |-> "none", doc_data |-> NULL, page_data |-> NULL,
     count |-> 0, width |-> 0, height |-> 0,
     returned |-> FALSE, status |-> 0, escaped |-> FALSE]

None == [some |-> FALSE, ptr |-> NULL]
Some(p) == [some |-> TRUE, ptr |-> p]

NoLookup == [called |-> FALSE, hi |-> 0, lo |-> 0, result |-> None]

CodecIdle == [stage |-> "idle", in_code |-> 0, in_res |-> "Ok", mid_code |-> 0,
              mid_res |-> "Ok", out_code |-> 0, out_res |-> "Ok"]

\* No callback is being stepped through.
Idle == [cb |-> "none", page |-> 0, at |-> 0]

\* plugin_entry! has not been invoked.
NoEntry == [stage |-> "idle", mimes |-> <<>>, def |-> <<>>]

Init ==
    /\ phase = "new"
    /\ doc = [data |-> NULL, number_of_pages |-> 0, has_pages |-> FALSE]
    /\ pages = <<>>
    /\ heap = <<>>
    /\ declared = 0
    /\ last = NoCall
    /\ lookup = NoLookup
    /\ crashed = FALSE
    /\ hooksOk = TRUE
    /\ statusesZero = TRUE
    /\ codec = CodecIdle
    /\ refs = <<>>
    /\ pc = Idle
    /\ writes = <<>>
    /\ entry = NoEntry


\* ------------------------------------------------- references and accessors
PageIndexes == DOMAIN pages

\* The raw pointer of the host's page object at index i.
PagePtr(i) == i + 1

\* A pointer-width index is hi * 2^32 + lo with 0 <= lo < 2^32.
Indexes == [hi : 0..MaxHi, lo : 0..(MaxPages + 1)]

\* `index as _`: the conversion of a usize to the host's 32-bit unsigned int
\* keeps the low 32 bits.
as_c_uint(index) == index.lo

\* index >= n for a pointer-width index and a 32-bit n.
IndexGe(index, n) == index.hi > 0 \/ index.lo >= n

\* The host's zathura_document_get_page: NULL without a page table or for an
\* index that is not below the page count.
zathura_document_get_page(d, idx) ==
    IF ~d.has_pages \/ d.number_of_pages <= idx THEN NULL ELSE PagePtr(idx)

\* DocumentRef::page_count
page_count(d) == d.number_of_pages

\* page that looks up the page after the one asked for.
page_off_by_one(d, index) ==
    LET ptr == zathura_document_get_page(d, as_c_uint(index) + 1)
    IN  IF ptr = NULL THEN None ELSE Some(ptr)

\* DocumentRef::page
page(d, index) ==
    LET ptr == zathura_document_get_page(d, as_c_uint(index))
    IN  IF ptr = NULL THEN None ELSE Some(ptr)

\* set_page_count that leaves the count alone.
set_page_count_noop(d, count) == d

\* DocumentRef::set_page_count
set_page_count(d, count) == [d EXCEPT !.number_of_pages = count]

\* DocumentRef::plugin_data
doc_plugin_data(d) == d.data

\* DocumentRef::set_plugin_data
doc_set_plugin_data(d, data) == [d EXCEPT !.data = data]

\* PageRef::set_width
set_width(p, width) == [p EXCEPT !.width = width]

\* set_height that writes the width field.
set_height_as_width(p, height) == [p EXCEPT !.width = height]

\* PageRef::set_height
set_height(p, height) == [p EXCEPT !.height = height]

\* plugin_data of a page that reads the document's slot instead.
page_plugin_data_of_doc(p) == doc.data

\* PageRef::plugin_data
page_plugin_data(p) == p.data

\* PageRef::set_plugin_data
page_set_plugin_data(p, data) == [p EXCEPT !.data = data]

\* --------------------------------------------------------- plugin-data heap
\* Box::into_raw(Box::new(..)): a fresh block, its pointer is Len(h) + 1.  The
\* block remembers what it was allocated for: the document, or page i.
Box_new(h, kind, i) == Append(h, [kind |-> kind, page |-> i, released |-> 0])

\* A drop that releases nothing.
Box_drop_leak(h, p) == h

\* drop(Box::from_raw(p)): releases block p.  Releasing NULL is undefined
\* behaviour; where the process survives it, nothing is released.
Box_drop(h, p) == IF p = NULL THEN h ELSE [h EXCEPT ![p].released = @ + 1]

\* Dereferencing or releasing p is undefined behaviour: p is null or dangling.
Invalid(p) == p = NULL \/ heap[p].released > 0

\* Undefined behaviour either kills the process or goes unnoticed.
UBOutcomes(p) == IF Invalid(p) THEN {"crash", "continue"} ELSE {"continue"}

Outstanding == Cardinality({b \in DOMAIN heap : heap[b].released = 0})

\* --------------------------------------------------------------- callbacks
\* What the host gets back from a callback whose closure ended with r after
\* the plugin method did o.  A panic that leaves the callback unwinds into
\* the host instead of returning a status.
Returned(cb, i, o, dd, pd, n, w, h, r) ==
    [cb |-> cb, page |-> i, hook |-> o, doc_data |-> dd, page_data |-> pd,
     count |-> n, width |-> w, height |-> h,
     returned |-> r # "panic",
     status |-> IF r = "panic" THEN 0 ELSE to_zathura(r),
     escaped |-> r = "panic"]

\* The process dies inside callback cb before the plugin method returns.
Crashed(cb, i, dd, pd) ==
    [NoCall EXCEPT !.cb = cb, !.page = i, !.doc_data = dd, !.page_data = pd]

Ghosts ==
    /\ hooksOk' = (hooksOk /\ last'.hook = "Ok")
    /\ statusesZero' = (statusesZero /\ last'.returned /\ last'.status = 0)
    /\ crashed' = (crashed \/ ~last'.returned)
    /\ lookup' = NoLookup

\* wrapper::document_open
document_open ==
    /\ ~crashed
    /\ phase = "new"
    /\ \E o \in Outcomes : \E n \in (IF o = "Ok" THEN 0..MaxPages ELSE {0}) :
        /\ IF o = "Ok"
             THEN /\ heap' = Box_new(heap, "doc", 0)
                  /\ doc' = set_page_count(doc_set_plugin_data(doc, Len(heap) + 1), n)
             ELSE UNCHANGED <<heap, doc>>
        /\ declared' = n
        /\ last' = Returned("document_open", 0, o, NULL, NULL, n, 0, 0, wrap(o))
    /\ phase' = IF last'.returned /\ last'.status = 0 THEN "opened" ELSE "openfailed"
    /\ Ghosts
    /\ UNCHANGED <<pages, codec, refs, pc, writes, entry>>

\* The host allocates the page objects of an opened document.
host_alloc_pages ==
    /\ ~crashed
    /\ phase = "opened"
    /\ ~doc.has_pages
    /\ doc' = [doc EXCEPT !.has_pages = TRUE]
    /\ pages' = [i \in 0..(doc.number_of_pages - 1) |->
                    [st |-> "uninit", data |-> NULL, width |-> 0, height |-> 0]]
    /\ lookup' = NoLookup
    /\ UNCHANGED <<phase, heap, declared, last, crashed, hooksOk, statusesZero, codec,
                   refs, pc, writes, entry>>

\* wrapper::document_free
document_free ==
    /\ ~crashed
    /\ phase = "opened"
    /\ \A i \in PageIndexes : pages[i].st \in {"uninit", "cleared"}
    /\ LET doc_data == doc_plugin_data(doc)
       IN  \E ub \in UBOutcomes(doc_data) :
             IF ub = "crash"
               THEN /\ last' = Crashed("document_free", 0, doc_data, NULL)
                    /\ UNCHANGED heap
               ELSE \E o \in Outcomes :
                      /\ heap' = IF o = "panic" THEN heap
                                 ELSE Box_drop(heap, doc_plugin_data(doc))
                      /\ last' = Returned("document_free", 0, o, doc_data, NULL,
                                          0, 0, 0, wrap(o))
    /\ phase' = "freed"
    /\ Ghosts
    /\ UNCHANGED <<doc, pages, declared, codec, refs, pc, writes, entry>>

\* wrapper::page_init
page_init(i) ==
    /\ ~crashed
    /\ phase = "opened"
    /\ pages[i].st = "uninit"
    /\ LET doc_data == doc_plugin_data(doc)
       IN  \E ub \in UBOutcomes(doc_data) :
             IF ub = "crash"
               THEN /\ last' = Crashed("page_init", i, doc_data, NULL)
                    /\ UNCHANGED <<heap, pages>>
               ELSE \E o \in Outcomes :
                    \E info \in (IF o = "Ok" THEN Dims ELSE {NoDims}) :
                      /\ last' = Returned("page_init", i, o, doc_data, NULL,
                                          0, info.width, info.height, wrap(o))
                      /\ IF o = "Ok"
                           THEN /\ heap' = Box_new(heap, "page", i)
                                /\ pages' = [pages EXCEPT ![i] =
                                     [page_set_plugin_data(
                                        set_height(set_width(@, info.width), info.height),
                                        Len(heap) + 1)
                                      EXCEPT !.st = "live"]]
                           ELSE /\ heap' = heap
                                /\ pages' = [pages EXCEPT ![i].st = "failed"]
    /\ Ghosts
    /\ UNCHANGED <<phase, doc, declared, codec, refs, pc, writes, entry>>

\* wrapper::page_clear
page_clear(i) ==
    /\ ~crashed
    /\ phase = "opened"
    /\ pages[i].st \in {"live", "failed"}
    /\ LET doc_data == doc_plugin_data(doc)
           page_data == page_plugin_data(pages[i])
       IN  \E ubd \in UBOutcomes(doc_data) : \E ubp \in UBOutcomes(page_data) :
             IF "crash" \in {ubd, ubp}
               THEN /\ last' = Crashed("page_clear", i, doc_data, page_data)
                    /\ UNCHANGED heap
               ELSE \E o \in Outcomes :
                      /\ heap' = IF o = "panic" THEN heap
                                 ELSE Box_drop(heap, page_plugin_data(pages[i]))
                      /\ last' = Returned("page_clear", i, o, doc_data, page_data,
                                          0, 0, 0, wrap(o))
    /\ pages' = [pages EXCEPT ![i].st = "cleared"]
    /\ Ghosts
    /\ UNCHANGED <<phase, doc, declared, codec, refs, pc, writes, entry>>

\* page_render_cairo that releases the page's data block after rendering, the
\* way page_clear does.
page_render_cairo_drops(i) ==
    /\ ~crashed
    /\ phase = "opened"
    /\ pages[i].st = "live"
    /\ LET page_data == page_plugin_data(pages[i])
           doc_data == doc_plugin_data(doc)
       IN  \E o \in Outcomes :
             /\ heap' = IF o = "panic" THEN heap ELSE Box_drop(heap, page_data)
             /\ last' = Returned("page_render_cairo", i, o, doc_data, page_data,
                                 0, 0, 0, wrap(o))
    /\ Ghosts
    /\ UNCHANGED <<phase, doc, pages, declared, codec, refs, pc, writes, entry>>

\* wrapper::page_render_cairo
page_render_cairo(i) ==
    /\ ~crashed
    /\ phase = "opened"
    /\ pages[i].st = "live"
    /\ LET page_data == page_plugin_data(pages[i])
           doc_data == doc_plugin_data(doc)
       IN  \E ubd \in UBOutcomes(doc_data) : \E ubp \in UBOutcomes(page_data) :
             IF "crash" \in {ubd, ubp}
               THEN last' = Crashed("page_render_cairo", i, doc_data, page_data)
               ELSE \E o \in Outcomes :
                      last' = Returned("page_render_cairo", i, o, doc_data, page_data,
                                       0, 0, 0, wrap(o))
    /\ Ghosts
    /\ UNCHANGED <<phase, doc, pages, heap, declared, codec, refs, pc, writes, entry>>

\* A holder of a DocumentRef (the plugin, inside a callback) looks a page up.
call_page ==
    /\ ~crashed
    /\ phase \in {"new", "opened"}
    /\ \E index \in Indexes :
         lookup' = [called |-> TRUE, hi |-> index.hi, lo |-> index.lo,
                    result |-> page(doc, index)]
    /\ last' = NoCall
    /\ UNCHANGED <<phase, doc, pages, heap, declared, crashed, hooksOk, statusesZero,
                   codec, refs, pc, writes, entry>>

Next ==
    \/ document_open
    \/ host_alloc_pages
    \/ document_free
    \/ \E i \in PageIndexes : page_init(i)
    \/ \E i \in PageIndexes : page_clear(i)
    \/ \E i \in PageIndexes : page_render_cairo(i)
    \/ call_page

Spec == Init /\ [][Next]_vars


\* --------------------------------------------- status-code conversions alone
\* A status code is decoded and the result encoded again; a Result is encoded
\* and the code decoded again.
Codes == (0 - CodeSpan)..(5 + CodeSpan)

\* The conversions touch nothing of the document.
CodecFrame ==
    UNCHANGED <<phase, doc, pages, heap, declared, last, lookup, crashed, hooksOk,
                statusesZero, refs, pc, writes, entry>>

CodecStart ==
    /\ codec.stage = "idle"
    /\ \/ \E c \in Codes : codec' = [CodecIdle EXCEPT !.stage = "code", !.in_code = c]
       \/ \E r \in Results : codec' = [CodecIdle EXCEPT !.stage = "result", !.in_res = r]
    /\ CodecFrame

CodecDecode ==
    /\ codec.stage = "code"
    /\ codec' = [codec EXCEPT !.stage = "decoded", !.mid_res = from_raw(codec.in_code)]
    /\ CodecFrame

CodecReencode ==
    /\ codec.stage = "decoded"
    /\ codec.mid_res # "None"
    /\ codec' = [codec EXCEPT !.stage = "reencoded", !.out_code = to_zathura(codec.mid_res)]
    /\ CodecFrame

CodecEncode ==
    /\ codec.stage = "result"
    /\ codec' = [codec EXCEPT !.stage = "encoded", !.mid_code = to_zathura(codec.in_res)]
    /\ CodecFrame

CodecRedecode ==
    /\ codec.stage = "encoded"
    /\ codec' = [codec EXCEPT !.stage = "redecoded", !.out_res = from_raw(codec.mid_code)]
    /\ CodecFrame

CodecNext ==
    \/ CodecStart
    \/ CodecDecode
    \/ CodecReencode
    \/ CodecEncode
    \/ CodecRedecode

CodecSpec == Init /\ [][CodecNext]_vars


\* ------------------------------------------- references inside a callback
\* The callbacks stepped through statement by statement, for the DocumentRef
\* and PageRef values alive at each point.  refs is the stack of live
\* references: who holds each, and which live reference it borrows (parent,
\* 0 for an independent one made by from_raw).

\* The host's handle of the document.
DocPtr == 1

\* The host's zathura_page_get_index: the index the page was created with.
zathura_page_get_index(ptr) == ptr - 1

\* The host's zathura_page_get_document: the document the page belongs to.
zathura_page_get_document(ptr) == DocPtr

\* DocumentRef::from_raw
doc_from_raw(rs, ptr) ==
    Append(rs, [kind |-> "doc", ptr |-> ptr, holder |-> "adapter", parent |-> 0])

\* PageRef::from_raw
page_from_raw(rs, ptr) ==
    Append(rs, [kind |-> "page", ptr |-> ptr, holder |-> "adapter", parent |-> 0])

\* document() taking `&self`: the DocumentRef it returns borrows nothing.
document_unborrowed(rs, k) ==
    Append(rs, [kind |-> "doc", ptr |-> zathura_page_get_document(rs[k].ptr),
                holder |-> rs[k].holder, parent |-> 0])

\* PageRef::document on reference k: `&'a mut self -> DocumentRef<'a>`, the
\* result borrows k for as long as it lives.
document(rs, k) ==
    Append(rs, [kind |-> "doc", ptr |-> zathura_page_get_document(rs[k].ptr),
                holder |-> rs[k].holder, parent |-> k])

\* DocumentRef::page on reference k, where the host returned ptr:
\* `&'a mut self -> Option<PageRef<'a>>`, the PageRef borrows k.
page_ref(rs, k, ptr) ==
    Append(rs, [kind |-> "page", ptr |-> ptr, holder |-> rs[k].holder, parent |-> k])

\* index() that counts pages from 1.
index_one_based(ptr) == [hi |-> 0, lo |-> zathura_page_get_index(ptr) + 1]

\* PageRef::index: the host's 32-bit index widened to usize.
index(ptr) == [hi |-> 0, lo |-> zathura_page_get_index(ptr)]

\* Reference k can be used: no live reference borrows it.
Usable(rs, k) == \A j \in DOMAIN rs : rs[j].parent # k

HeldByAdapter(r) == r.holder = "adapter"

\* document_open with the page count set before the data block is attached.
Program_count_first(cb) ==
    CASE cb = "document_open" ->
           <<"from_raw", "move", "hook", "from_raw", "set_page_count",
             "set_plugin_data", "drop">>
      [] cb = "document_free" ->
           <<"from_raw", "plugin_data", "move", "hook", "from_raw", "plugin_data",
             "box_drop", "drop">>
      [] cb = "page_init" ->
           <<"from_raw", "document", "plugin_data", "drop_temp", "move", "hook",
             "from_raw", "set_width", "set_height", "set_plugin_data", "drop">>
      [] cb = "page_clear" ->
           <<"from_raw", "document", "plugin_data", "drop_temp", "plugin_data", "move",
             "hook", "from_raw", "plugin_data", "box_drop", "drop">>
      [] cb = "page_render_cairo" ->
           <<"from_raw", "plugin_data", "document", "plugin_data", "drop_temp", "move",
             "hook">>

\* The statements of each callback's closure, in source order.
Program(cb) ==
    CASE cb = "document_open" ->
           <<"from_raw", "move", "hook", "from_raw", "set_plugin_data",
             "set_page_count", "drop">>
      [] cb = "document_free" ->
           <<"from_raw", "plugin_data", "move", "hook", "from_raw", "plugin_data",
             "box_drop", "drop">>
      [] cb = "page_init" ->
           <<"from_raw", "document", "plugin_data", "drop_temp", "move", "hook",
             "from_raw", "set_width", "set_height", "set_plugin_data", "drop">>
      [] cb = "page_clear" ->
           <<"from_raw", "document", "plugin_data", "drop_temp", "plugin_data", "move",
             "hook", "from_raw", "plugin_data", "box_drop", "drop">>
      [] cb = "page_render_cairo" ->
           <<"from_raw", "plugin_data", "document", "plugin_data", "drop_temp", "move",
             "hook">>

Callbacks ==
    {"document_open", "document_free", "page_init", "page_clear", "page_render_cairo"}

\* The statement the callback is at, "end" past the last one.
Statement ==
    IF pc.cb = "none" THEN "none"
    ELSE IF pc.at > Len(Program(pc.cb)) THEN "end"
    ELSE Program(pc.cb)[pc.at]

\* Whether the closure goes on after the plugin method did o: `?` leaves
\* document_open and page_init on Err, a panic unwinds any closure.
Continues(cb, o) ==
    IF cb \in {"document_open", "page_init"} THEN o = "Ok" ELSE o # "panic"

\* The stepped callbacks read the document and leave it as it is.
RefFrame ==
    UNCHANGED <<phase, doc, pages, heap, declared, last, lookup, crashed, hooksOk,
                statusesZero, codec, entry>>

Advance == pc' = [pc EXCEPT !.at = @ + 1]

\* The document states the callbacks are stepped through in: a new document,
\* an opened one whose pages the host has allocated, and one whose pages are
\* all initialised.
RefStartNew ==
    /\ phase = "new"
    /\ doc = [data |-> NULL, number_of_pages |-> 0, has_pages |-> FALSE]
    /\ pages = <<>>
    /\ heap = <<>>
    /\ declared = 0
    /\ last = NoCall

RefStartOpened ==
    /\ phase = "opened"
    /\ doc = [data |-> 1, number_of_pages |-> MaxPages, has_pages |-> TRUE]
    /\ pages = [i \in 0..(MaxPages - 1) |->
                   [st |-> "uninit", data |-> NULL, width |-> 0, height |-> 0]]
    /\ heap = Box_new(<<>>, "doc", 0)
    /\ declared = MaxPages
    /\ last = Returned("document_open", 0, "Ok", NULL, NULL, MaxPages, 0, 0, "Ok")

RefStartLive ==
    /\ phase = "opened"
    /\ doc = [data |-> 1, number_of_pages |-> MaxPages, has_pages |-> TRUE]
    /\ pages = [i \in 0..(MaxPages - 1) |->
                   [st |-> "live", data |-> i + 2, width |-> 75, height |-> 100]]
    /\ heap = [b \in 1..(MaxPages + 1) |->
                  IF b = 1 THEN [kind |-> "doc", page |-> 0, released |-> 0]
                  ELSE [kind |-> "page", page |-> b - 2, released |-> 0]]
    /\ declared = MaxPages
    /\ last = Returned("page_init", MaxPages - 1, "Ok", 1, NULL, 0, 75, 100, "Ok")

RefInit ==
    /\ RefStartNew \/ RefStartOpened \/ RefStartLive
    /\ lookup = NoLookup
    /\ crashed = FALSE
    /\ hooksOk = TRUE
    /\ statusesZero = TRUE
    /\ codec = CodecIdle
    /\ refs = <<>>
    /\ pc = Idle
    /\ writes = <<>>
    /\ entry = NoEntry

\* The host invokes a callback its lifecycle allows in this state.
RefEnter ==
    /\ pc = Idle
    /\ \/ /\ ENABLED document_open
          /\ pc' = [cb |-> "document_open", page |-> 0, at |-> 1]
       \/ /\ ENABLED document_free
          /\ pc' = [cb |-> "document_free", page |-> 0, at |-> 1]
       \/ \E i \in PageIndexes :
            \/ /\ ENABLED page_init(i)
               /\ pc' = [cb |-> "page_init", page |-> i, at |-> 1]
            \/ /\ ENABLED page_clear(i)
               /\ pc' = [cb |-> "page_clear", page |-> i, at |-> 1]
            \/ /\ ENABLED page_render_cairo(i)
               /\ pc' = [cb |-> "page_render_cairo", page |-> i, at |-> 1]
    /\ UNCHANGED <<refs, writes>>
    /\ RefFrame

\* `DocumentRef::from_raw(document)` / `PageRef::from_raw(page)`
RefFromRaw ==
    /\ Statement = "from_raw"
    /\ refs' = IF pc.cb \in {"document_open", "document_free"}
               THEN doc_from_raw(refs, DocPtr)
               ELSE page_from_raw(refs, PagePtr(pc.page))
    /\ Advance
    /\ UNCHANGED writes
    /\ RefFrame

\* `p.document()`: the adapter's temporary DocumentRef
RefDocument ==
    /\ Statement = "document"
    /\ refs' = document(refs, Len(refs))
    /\ Advance
    /\ UNCHANGED writes
    /\ RefFrame

\* `.plugin_data()`: a read through the reference on top
RefPluginData ==
    /\ Statement = "plugin_data"
    /\ Advance
    /\ UNCHANGED <<refs, writes>>
    /\ RefFrame

\* The temporary DocumentRef dies at the end of its statement; the adapter's
\* own reference dies at the end of the closure.
RefDrop ==
    /\ Statement \in {"drop_temp", "drop"}
    /\ refs' = SubSeq(refs, 1, Len(refs) - 1)
    /\ Advance
    /\ UNCHANGED writes
    /\ RefFrame

\* The adapter passes its reference by value to the plugin method.
RefMove ==
    /\ Statement = "move"
    /\ refs' = [refs EXCEPT ![Len(refs)].holder = "plugin"]
    /\ Advance
    /\ UNCHANGED writes
    /\ RefFrame

\* Inside the plugin method: document() on the PageRef on top.
PluginDocument ==
    /\ Statement = "hook"
    /\ Len(refs) < MaxDepth
    /\ refs[Len(refs)].kind = "page"
    /\ refs' = document(refs, Len(refs))
    /\ UNCHANGED <<pc, writes>>
    /\ RefFrame

\* Inside the plugin method: page(index) on the DocumentRef on top.
PluginPage ==
    /\ Statement = "hook"
    /\ Len(refs) < MaxDepth
    /\ refs[Len(refs)].kind = "doc"
    /\ \E idx \in Indexes :
         /\ page(doc, idx).some
         /\ refs' = page_ref(refs, Len(refs), page(doc, idx).ptr)
    /\ UNCHANGED <<pc, writes>>
    /\ RefFrame

\* Inside the plugin method: the derived reference on top goes out of scope.
PluginDrop ==
    /\ Statement = "hook"
    /\ Len(refs) > 1
    /\ refs' = SubSeq(refs, 1, Len(refs) - 1)
    /\ UNCHANGED <<pc, writes>>
    /\ RefFrame

\* The plugin method returns or panics: every reference it held is gone.
RefHookEnd ==
    /\ Statement = "hook"
    /\ refs' = SelectSeq(refs, HeldByAdapter)
    /\ \E o \in Outcomes :
         pc' = [pc EXCEPT !.at = IF Continues(pc.cb, o) THEN @ + 1
                                 ELSE Len(Program(pc.cb)) + 1]
    /\ UNCHANGED writes
    /\ RefFrame

\* A write to the host's document or page, or the release of a data block.
RefWrite ==
    /\ Statement \in {"set_plugin_data", "set_page_count", "set_width", "set_height",
                      "box_drop", "page"}
    /\ writes' = Append(writes, Statement)
    /\ Advance
    /\ UNCHANGED refs
    /\ RefFrame

\* The callback returns to the host.
RefExit ==
    /\ Statement = "end"
    /\ pc' = Idle
    /\ refs' = <<>>
    /\ writes' = <<>>
    /\ RefFrame

RefNext ==
    \/ RefEnter
    \/ RefFromRaw
    \/ RefDocument
    \/ RefPluginData
    \/ RefDrop
    \/ RefMove
    \/ PluginDocument
    \/ PluginPage
    \/ PluginDrop
    \/ RefHookEnd
    \/ RefWrite
    \/ RefExit

RefSpec == RefInit /\ [][RefNext]_vars

\* ------------------------------------------------------- plugin_entry!
\* The MIME type literals an invocation may list.
MimeTypes == {"text/plain", "application/pdf", "image/png"}

\* The `$($mime),+` lists: at least one literal.
MimeLists == UNION {[1..n -> MimeTypes] : n \in 1..MaxMimes}

\* The slots of zathura_plugin_functions_t, in the order the macro fills them.
FunctionSlots ==
    {"document_open", "document_free", "document_index_generate", "document_save_as",
     "document_attachments_get", "document_attachment_save", "document_get_information",
     "page_init", "page_clear", "page_search_text", "page_links_get",
     "page_form_fields_get", "page_images_get", "page_image_get_cairo", "page_get_text",
     "page_render", "page_render_cairo", "page_get_label"}

\* A count that starts from 1 instead of 0.
MimeCount_from_one(ms) == Len(ms) + 1

\* `0 $(+ { $mime; 1 })+`: one 1 summed up per listed literal.
RECURSIVE MimeCount(_)
MimeCount(ms) == IF ms = <<>> THEN 0 ELSE MimeCount(Tail(ms)) + 1

\* What the macro puts in a slot: the wrapper of that name, or None.
SlotValue(slot) ==
    IF slot \in {"document_open", "document_free", "page_init", "page_clear",
                 "page_render_cairo"}
    THEN Some(slot) ELSE None

\* The zathura_plugin_definition_t the macro builds.
plugin_entry(name, ms) ==
    [name |-> name,
     version |-> [major |-> 0, minor |-> 0, rev |-> 0],
     mime_types_size |-> MimeCount(ms),
     mime_types |-> ms,
     functions |-> [slot \in FunctionSlots |-> SlotValue(slot)]]

EntryFrame ==
    UNCHANGED <<phase, doc, pages, heap, declared, last, lookup, crashed, hooksOk,
                statusesZero, codec, refs, pc, writes>>

\* A crate invokes plugin_entry! with a list of MIME types.
EntryInvoke ==
    /\ entry.stage = "idle"
    /\ \E ms \in MimeLists : entry' = [stage |-> "invoked", mimes |-> ms, def |-> <<>>]
    /\ EntryFrame

\* The macro expands to the static descriptor.
EntryExpand ==
    /\ entry.stage = "invoked"
    /\ entry' = [entry EXCEPT !.stage = "expanded",
                              !.def = plugin_entry("TestPlugin", entry.mimes)]
    /\ EntryFrame

EntryNext ==
    \/ EntryInvoke
    \/ EntryExpand

EntrySpec == Init /\ [][EntryNext]_vars

\* ------------------------------------------------------------------ claims
\* The slot a free callback releases: the document's for document_free, the
\* page's for page_clear.
FreedSlot ==
    IF last.cb = "document_free" THEN doc.data ELSE pages[last.page].data

IsFree == last.cb \in {"document_free", "page_clear"}

\* C1: every free-document and free-page callback that the plugin's hook ran
\* in (returning Ok, returning an error, or panicking) has released the block
\* attached to its document or page exactly once.
C1_FreeReleasesExactlyOnce ==
    (IsFree /\ last.hook \in Outcomes /\ FreedSlot # NULL)
        => heap[FreedSlot].released = 1

\* C1, the part that holds: a free callback whose hook returned (Ok or an
\* error) has released the attached block exactly once.
C1_FreeReleasesWhenHookReturns ==
    (IsFree /\ last.hook \in Results /\ FreedSlot # NULL)
        => heap[FreedSlot].released = 1

\* C2: a callback whose plugin method panicked returns status 1 (Unknown) to
\* the host, and the panic does not leave the callback.
C2_PanicBecomesUnknown ==
    last.hook = "panic" => (last.returned /\ ~last.escaped /\ last.status = 1)

C2_Witness ==
    /\ last.cb = "page_render_cairo"
    /\ last.hook = "panic"
    /\ last.returned

\* The status code the Error Model binds to a Result.
CodeOf(r) ==
    CASE r = "Ok" -> 0
      [] r = "Unknown" -> 1
      [] r = "OutOfMemory" -> 2
      [] r = "NotImplemented" -> 3
      [] r = "InvalidArguments" -> 4
      [] r = "InvalidPassword" -> 5

\* C3: a callback whose plugin method returned Ok gives the host status 0, and
\* one whose plugin method returned Err(k) gives it the code of k; the free
\* callbacks too, which release the data block after the hook ran.
C3_StatusIsHookResult ==
    last.hook \in Results => (last.returned /\ last.status = CodeOf(last.hook))

C3_Witness ==
    /\ last.cb = "document_free"
    /\ last.hook = "InvalidPassword"
    /\ last.status = 5
    /\ heap[doc.data].released = 1

\* C4: decode(0) = Some(Ok); decode(c) = None exactly for the codes outside
\* 0..5; encoding what a recognized code decoded to gives the code back; and
\* decoding what a Result encoded to gives Some of that Result.
C4_CodecInverse ==
    /\ codec.stage = "decoded" =>
         /\ (codec.in_code = 0 => codec.mid_res = "Ok")
         /\ (codec.in_code \in 0..5 <=> codec.mid_res # "None")
    /\ codec.stage = "reencoded" =>
         (codec.in_code \in 0..5 /\ codec.out_code = codec.in_code)
    /\ codec.stage = "redecoded" => codec.out_res = codec.in_res

C4_Witness ==
    /\ codec.stage = "redecoded"
    /\ codec.in_res = "InvalidPassword"
    /\ codec.mid_code = 5


\* The blocks of h, without the one allocated last.
Front(h) == SubSeq(h, 1, Len(h) - 1)

\* C5: document_open allocates exactly one DocumentData block, attaches it to
\* the document's slot and sets the page count to the declared count if and
\* only if the plugin's document_open returned Ok; otherwise (error or panic)
\* it allocates nothing and leaves page count and slot as they were.
C5_OpenAttachesIffOk ==
    [][document_open =>
        /\ (last'.hook = "Ok") <=> (Len(heap') = Len(heap) + 1)
        /\ last'.hook = "Ok" =>
             /\ Front(heap') = heap
             /\ heap'[Len(heap')] = [kind |-> "doc", page |-> 0, released |-> 0]
             /\ doc'.data = Len(heap')
             /\ doc'.number_of_pages = last'.count
        /\ last'.hook # "Ok" =>
             /\ heap' = heap
             /\ doc' = doc]_vars

C5_Witness ==
    /\ last.cb = "document_open"
    /\ last.hook = "Ok"
    /\ last.count = MaxPages
    /\ doc.number_of_pages = MaxPages
    /\ doc.data = 1

\* C6: page_init allocates exactly one PageData block, attaches it to the
\* page's slot and sets the page's width and height to what the plugin
\* returned if and only if the plugin's page_init returned Ok; otherwise
\* (error or panic) it allocates nothing and leaves width, height and slot as
\* they were.
C6_InitAttachesIffOk ==
    [][\A i \in PageIndexes : page_init(i) =>
        /\ (last'.hook = "Ok") <=> (Len(heap') = Len(heap) + 1)
        /\ last'.hook = "Ok" =>
             /\ Front(heap') = heap
             /\ heap'[Len(heap')] = [kind |-> "page", page |-> i, released |-> 0]
             /\ pages'[i].data = Len(heap')
             /\ pages'[i].width = last'.width
             /\ pages'[i].height = last'.height
        /\ last'.hook # "Ok" =>
             /\ heap' = heap
             /\ pages'[i].data = pages[i].data
             /\ pages'[i].width = pages[i].width
             /\ pages'[i].height = pages[i].height
        /\ \A j \in PageIndexes \ {i} : pages'[j] = pages[j]]_vars

C6_Witness ==
    /\ last.cb = "page_init"
    /\ last.hook = "Ok"
    /\ last.page = MaxPages - 1
    /\ pages[last.page].data = Len(heap)
    /\ pages[last.page].width = 75
    /\ pages[last.page].height = 100

\* The block document_open / page_init(i) allocated, NULL if there is none.
BlocksOf(kind, i) == {b \in DOMAIN heap : heap[b].kind = kind /\ heap[b].page = i}
BlockOf(kind, i) ==
    IF BlocksOf(kind, i) = {} THEN NULL ELSE CHOOSE b \in BlocksOf(kind, i) : TRUE

\* C7: the block document_open attached is the block handed as doc_data in
\* every later page_init, page_render_cairo, page_clear and document_free, and
\* the block page_init attached to a page is the block handed as page_data in
\* every later page_render_cairo and page_clear of that page; the slots keep
\* pointing at those blocks, of which there is one per document or page.
C7_SameBlockHandedBack ==
    /\ Cardinality(BlocksOf("doc", 0)) <= 1
    /\ \A i \in PageIndexes : Cardinality(BlocksOf("page", i)) <= 1
    /\ BlockOf("doc", 0) # NULL => doc.data = BlockOf("doc", 0)
    /\ \A i \in PageIndexes :
         BlockOf("page", i) # NULL => pages[i].data = BlockOf("page", i)
    /\ (last.cb \in {"page_init", "page_render_cairo", "page_clear", "document_free"}
            /\ last.hook \in Outcomes)
         => (last.doc_data # NULL /\ last.doc_data = BlockOf("doc", 0))
    /\ (last.cb \in {"page_render_cairo", "page_clear"} /\ last.hook \in Outcomes
            /\ BlockOf("page", last.page) # NULL)
         => last.page_data = BlockOf("page", last.page)

C7_Witness ==
    /\ last.cb = "page_clear"
    /\ last.hook \in Outcomes
    /\ last.page = 0
    /\ last.doc_data = 1
    /\ last.page_data = 3
    /\ BlockOf("page", 0) = 3
    /\ BlockOf("page", 1) = 2

\* C8: as long as every plugin method so far succeeded, every callback so far
\* returned status 0, and once document_free has returned no plugin-data block
\* is outstanding.
C8_CleanLifecycle ==
    hooksOk =>
        /\ statusesZero
        /\ ~crashed
        /\ phase = "freed" => Outstanding = 0

C8_Witness ==
    /\ hooksOk
    /\ phase = "freed"
    /\ last.cb = "document_free"
    /\ last.status = 0
    /\ declared = MaxPages
    /\ DOMAIN pages = 0..(MaxPages - 1)
    /\ \A i \in PageIndexes : pages[i].st = "cleared"
    /\ Len(heap) = MaxPages + 1
    /\ Outstanding = 0

\* C9: once document_open succeeded declaring N pages and the host allocated
\* them, page_count() is N and page(i) is a Page Reference (to page i) for
\* every i with 0 <= i < N.
C9_PagesPresent ==
    (phase = "opened" /\ doc.has_pages) =>
        /\ page_count(doc) = declared
        /\ \A i \in 0..(declared - 1) :
             page(doc, [hi |-> 0, lo |-> i]) = Some(PagePtr(i))
        /\ (lookup.called /\ lookup.hi = 0 /\ lookup.lo < declared)
             => lookup.result = Some(PagePtr(lookup.lo))

C9_Witness ==
    /\ phase = "opened"
    /\ doc.has_pages
    /\ declared = MaxPages
    /\ lookup.called
    /\ lookup.hi = 0
    /\ lookup.lo = MaxPages - 1
    /\ lookup.result.some

\* C10: page(index) is None for every index >= page_count(), whatever the
\* value of the pointer-width index, also beyond the 32-bit range.
C10_AbsentBeyondCount ==
    (lookup.called /\ IndexGe([hi |-> lookup.hi, lo |-> lookup.lo], page_count(doc)))
        => lookup.result = None

\* C10, the part that holds: an index that fits the host's 32-bit parameter
\* and is >= page_count() gives None.
C10_AbsentBeyondCountIn32Bits ==
    (lookup.called /\ lookup.hi = 0 /\ lookup.lo >= page_count(doc))
        => lookup.result = None


\* The three documents RefSpec starts from are states Spec reaches.
RefStartOpenedUnreached == ~(RefStartOpened /\ lookup = NoLookup)
RefStartLiveUnreached == ~(RefStartLive /\ lookup = NoLookup)

References == DOMAIN refs

\* C11: at every point of every callback at most one reference into the
\* document's object graph is usable; the adapter holds none while the plugin
\* holds one; and at most one reference is independent (every other one
\* borrows a live reference, which is unusable meanwhile).
C11_OneUsableReference ==
    /\ Cardinality({k \in References : Usable(refs, k)}) <= 1
    /\ Cardinality({k \in References : refs[k].parent = 0}) <= 1
    /\ (\E k \in References : refs[k].holder = "plugin")
         => (\A k \in References : refs[k].holder = "plugin")
    /\ \A k \in References : refs[k].parent < k

C11_Witness ==
    /\ pc.cb = "page_render_cairo"
    /\ Statement = "hook"
    /\ Len(refs) = 3
    /\ refs[1].kind = "page" /\ refs[1].holder = "plugin" /\ refs[1].parent = 0
    /\ refs[2].kind = "doc" /\ refs[2].parent = 1
    /\ refs[3].kind = "page" /\ refs[3].parent = 2 /\ refs[3].ptr # refs[1].ptr
    /\ ~Usable(refs, 1) /\ ~Usable(refs, 2) /\ Usable(refs, 3)


\* The host's document behind a document handle.
DocAt(ptr) == IF ptr = DocPtr THEN doc ELSE [data |-> NULL, number_of_pages |-> 0,
                                             has_pages |-> FALSE]

\* The references of `doc.page(i)` followed by `.document()` on the result.
LookedUp == page_ref(doc_from_raw(<<>>, DocPtr), 1, lookup.result.ptr)
LookedUpDocument == document(LookedUp, 2)

\* C12: a Page Reference obtained as doc.page(i) with i < page_count() has
\* index() = i, and its document() is a Document Reference to the handle doc
\* is bound to (borrowing the page reference), so page_count() and the other
\* accessors read the same document.
C12_PageKnowsIndexAndDocument ==
    (lookup.called /\ lookup.hi = 0 /\ lookup.lo < page_count(doc) /\ lookup.result.some)
        => /\ index(lookup.result.ptr) = [hi |-> lookup.hi, lo |-> lookup.lo]
           /\ LookedUpDocument[3].kind = "doc"
           /\ LookedUpDocument[3].ptr = LookedUp[1].ptr
           /\ LookedUpDocument[3].parent = 2
           /\ DocAt(LookedUpDocument[3].ptr) = doc
           /\ page_count(DocAt(LookedUpDocument[3].ptr)) = page_count(doc)

C12_Witness ==
    /\ lookup.called
    /\ lookup.result.some
    /\ lookup.hi = 0
    /\ lookup.lo = MaxPages - 1
    /\ lookup.lo < page_count(doc)
    /\ index(lookup.result.ptr).lo = MaxPages - 1


\* The callbacks the adapter implements.
Implemented ==
    {"document_open", "document_free", "page_init", "page_clear", "page_render_cairo"}

\* C13: the descriptor plugin_entry! produces has exactly the five callbacks
\* document_open, document_free, page_init, page_clear and page_render_cairo
\* present, each the wrapper of that name, every other slot absent, and its
\* mime_types_size is the number of MIME types listed in the invocation.
C13_DescriptorShape ==
    entry.stage = "expanded" =>
        /\ DOMAIN entry.def.functions = FunctionSlots
        /\ Cardinality(FunctionSlots) = 18
        /\ {slot \in FunctionSlots : entry.def.functions[slot].some} = Implemented
        /\ \A slot \in Implemented : entry.def.functions[slot].ptr = slot
        /\ entry.def.mime_types_size = Len(entry.mimes)
        /\ entry.def.mime_types = entry.mimes

C13_Witness ==
    /\ entry.stage = "expanded"
    /\ Len(entry.mimes) = MaxMimes
    /\ entry.def.mime_types_size = MaxMimes
    /\ entry.def.functions["page_render_cairo"].some
    /\ ~entry.def.functions["page_render"].some


RecoversData == last.cb \in {"page_init", "page_render_cairo", "page_clear", "document_free"}

RecoversPageData == last.cb \in {"page_render_cairo", "page_clear"}

\* Pointer p is the block allocated for (kind, i), released at most as often
\* as the callback that just ran may have released it.
AttachedAndLive(p, kind, i, releases) ==
    /\ p # NULL
    /\ p = BlockOf(kind, i)
    /\ heap[p].released <= releases

\* C14: in every callback that recovers a plugin-data pointer, the pointer
\* refers to a block a successful document_open / page_init attached to that
\* object and that was not released before the callback, in every callback
\* order the host's lifecycle permits (page_clear after a failed page_init
\* included).
C14_RecoveredPointersLive ==
    /\ RecoversData =>
         AttachedAndLive(last.doc_data, "doc", 0,
                         IF last.cb = "document_free" THEN 1 ELSE 0)
    /\ RecoversPageData =>
         AttachedAndLive(last.page_data, "page", last.page,
                         IF last.cb = "page_clear" THEN 1 ELSE 0)

\* C14, the part that holds: the document's pointer always, and the page's
\* pointer on a page whose page_init succeeded.
C14_RecoveredPointersLiveAfterInit ==
    /\ RecoversData =>
         AttachedAndLive(last.doc_data, "doc", 0,
                         IF last.cb = "document_free" THEN 1 ELSE 0)
    /\ (RecoversPageData /\ BlockOf("page", last.page) # NULL) =>
         AttachedAndLive(last.page_data, "page", last.page,
                         IF last.cb = "page_clear" THEN 1 ELSE 0)

\* Where the plugin method is called in a callback's closure.
HookAt(cb) == CHOOSE k \in DOMAIN Program(cb) : Program(cb)[k] = "hook"

\* C15: in document_open, set_page_count is the adapter's last write: it comes
\* after the plugin's document_open returned and right after the data block
\* was attached, and the adapter calls page() nowhere.
C15_PageCountWrittenLast ==
    pc.cb = "document_open" =>
        /\ \A k \in DOMAIN writes :
             writes[k] = "set_page_count" =>
                /\ k = Len(writes)
                /\ k > 1
                /\ writes[k - 1] = "set_plugin_data"
                /\ pc.at > HookAt(pc.cb)
        /\ \A k \in DOMAIN writes : writes[k] # "page"
        /\ (Statement = "end" /\ writes # <<>>) => writes[Len(writes)] = "set_page_count"

C15_Witness ==
    /\ pc.cb = "document_open"
    /\ Statement = "end"
    /\ refs = <<>>
    /\ writes = <<"set_plugin_data", "set_page_count">>

\* C16: page_render_cairo, whatever the plugin method did, leaves the
\* document (page count, data slot), every page (data slot, size) and the
\* plugin-data heap (no allocation, no release) as they were.
C16_RenderChangesNothing ==
    [][\A i \in PageIndexes : page_render_cairo(i) =>
        /\ doc' = doc
        /\ pages' = pages
        /\ heap' = heap
        /\ phase' = phase]_vars

C16_Witness ==
    /\ last.cb = "page_render_cairo"
    /\ last.hook = "OutOfMemory"
    /\ last.page = MaxPages - 1
    /\ last.status = 2
    /\ Outstanding = Len(heap)
    /\ Len(heap) = MaxPages + 1

====
